---- MODULE Spec2Model ----
(***************************************************************************)
(* A model of rocket-lamb: the builder (src/src/builder.rs, config.rs),    *)
(* the Lambda handler and its lazily initialised Rocket client            *)
(* (src/src/handler.rs) and the request-path helpers                      *)
(* (src/src/request_ext.rs).                                               *)
(*                                                                         *)
(* Text is modelled as a sequence of one-character strings, so that the    *)
(* string operations of the code (to_lowercase, ends_with, contains,       *)
(* rfind, split, join, slicing) are computed and not assumed.  A header    *)
(* value is a sequence of tokens; the token "xFF" is a byte that is not  *)
(* visible ASCII, so that HeaderValue::to_str fails on it.                 *)
(***************************************************************************)
EXTENDS Naturals, Sequences, FiniteSets, TLC

VARIABLES
    pc,             \* where the program is: builder calls, idle, inside run
    builder,        \* {} or {the RocketHandlerBuilder}
    calls,          \* history of the builder calls made so far
    handler,        \* {} or {the RocketHandler}
    local_rocket,   \* {} or {the Rocket moved out of the LazyClient}
    req,            \* {} or {the request of the invocation in progress}
    local_req,      \* {} or {the LocalRequest that was dispatched}
    result,         \* outcome of the last finished invocation
    invocations,    \* number of calls of run so far
    initialised_by, \* invocations that replaced Uninitialized by Placeholder
    constructions   \* number of calls of Client::untracked so far

vars == <<pc, builder, calls, handler, local_rocket, req, local_req, result,
          invocations, initialised_by, constructions>>

---------------------------------------------------------------------------
(* Bounds of the model *)

MaxInvocations == 3

MaxBuilderCalls == 2

MaxPathLen == 5

---------------------------------------------------------------------------
(* Option<T>: None is the empty set, Some(x) the singleton *)

None == {}

Some(x) == {x}

The(opt) == CHOOSE x \in opt : TRUE

(* Result<T, RocketLambError> (error.rs) and a panic *)

Ok(v) == [tag |-> "Ok", val |-> v]

InvalidRequest(kind, what) ==
    [tag |-> "Err", err |-> "InvalidRequest", kind |-> kind, what |-> what]

InvalidResponse(kind) ==
    [tag |-> "Err", err |-> "InvalidResponse", kind |-> kind, what |-> <<>>]

Panic(msg) == [tag |-> "Panic", msg |-> msg]

---------------------------------------------------------------------------
(* Text operations of the Rust standard library *)

starts_with(s, p) ==
    Len(p) <= Len(s) /\ SubSeq(s, 1, Len(p)) = p

ends_with(s, p) ==
    Len(p) <= Len(s) /\ SubSeq(s, Len(s) - Len(p) + 1, Len(s)) = p

\* the 0-based byte offsets at which p occurs in s
Occurrences(s, p) ==
    IF Len(p) > Len(s) THEN {}
    ELSE {i \in 0..(Len(s) - Len(p)) : SubSeq(s, i + 1, i + Len(p)) = p}

contains(s, p) == Occurrences(s, p) # {}

\* str::rfind: the offset of the last occurrence
rfind(s, p) ==
    LET occ == Occurrences(s, p)
    IN  IF occ = {} THEN None
        ELSE Some(CHOOSE i \in occ : \A j \in occ : j <= i)

LowerChar(c) ==
    CASE c = "T" -> "t"
      [] c = "A" -> "a"
      [] c = "P" -> "p"
      [] OTHER -> c

to_lowercase(s) == [i \in 1..Len(s) |-> LowerChar(s[i])]

\* str::split(sep): the pieces between the separators (always at least one)
RECURSIVE split(_, _)
split(s, sep) ==
    IF \A i \in 1..Len(s) : s[i] # sep THEN <<s>>
    ELSE LET k == CHOOSE i \in 1..Len(s) :
                      s[i] = sep /\ \A j \in 1..(i - 1) : s[j] # sep
         IN  <<SubSeq(s, 1, k - 1)>> \o split(SubSeq(s, k + 1, Len(s)), sep)

\* [&str]::join(sep)
RECURSIVE join(_, _)
join(parts, sep) ==
    IF Len(parts) = 0 THEN <<>>
    ELSE IF Len(parts) = 1 THEN parts[1]
    ELSE parts[1] \o <<sep>> \o join(Tail(parts), sep)

---------------------------------------------------------------------------
(* lambda_http::Request: the fields this crate reads.                      *)
(*   method           the HTTP method name                                 *)
(*   context          "ApiGateway" or "Alb" (RequestContext)               *)
(*   headers          sequence of <<name, value>>, in iteration order      *)
(*   stage, resource_path, path_parameters                                 *)
(*                    of RequestContext::ApiGateway / the path parameters  *)
(*   path             uri().path()                                         *)
(*   query            sequence of <<key, <<value, ...>>>>, in the order    *)
(*                    query_string_parameters().iter() yields the keys     *)

\* HeaderValue::to_str: fails unless every byte is visible ASCII
to_str(value) ==
    IF \E i \in 1..Len(value) : value[i] = "xFF" THEN None ELSE Some(value)

\* HeaderMap::get: the first value stored under the name
header_get(headers, name) ==
    LET idx == {i \in 1..Len(headers) : headers[i][1] = name}
    IN  IF idx = {} THEN None
        ELSE Some(headers[CHOOSE i \in idx : \A j \in idx : i <= j][2])

is_alb(r) == r.context = "Alb"

AmazonawsCom == <<".amazonaws.com">>

ExecuteApi == <<".execute-api.">>

---------------------------------------------------------------------------
(* src/src/request_ext.rs *)

\* Option::and_then over the two-step lookup of the Host header
HostText(r) ==
    LET h == header_get(r.headers, "host")
    IN  IF h = None THEN None ELSE to_str(The(h))

is_default_api_gateway_url(r) ==
    LET h == HostText(r)
    IN  IF h = None THEN FALSE
        ELSE ends_with(The(h), AmazonawsCom) /\ contains(The(h), ExecuteApi)

\* variant: the '+' of a greedy placeholder is kept in the parameter name
populate_segment_keeping_plus(r, segment) ==
    IF Len(segment) > 0 /\ segment[1] = "{"
    THEN LET param == SubSeq(segment, 2, Len(segment) - 1)
         IN  IF param \in DOMAIN r.path_parameters
             THEN Ok(r.path_parameters[param])
             ELSE Panic("Could not find path parameter")
    ELSE Ok(segment)

\* one segment of the resource path: Ok(text) or a panic
populate_segment(r, segment) ==
    IF Len(segment) > 0 /\ segment[1] = "{"
    THEN LET end == IF ends_with(segment, <<"+", "}">>) THEN 2 ELSE 1
         IN  IF Len(segment) - end < 1
             THEN Panic("slice index")
             ELSE LET param == SubSeq(segment, 2, Len(segment) - end)
                  IN  IF param \in DOMAIN r.path_parameters
                      THEN Ok(r.path_parameters[param])
                      ELSE Panic("Could not find path parameter")
    ELSE Ok(segment)

populate_resource_path(r, resource_path) ==
    LET segments == split(resource_path, "/")
        mapped == [i \in 1..Len(segments) |-> populate_segment(r, segments[i])]
    IN  IF \E i \in 1..Len(mapped) : mapped[i].tag = "Panic"
        THEN mapped[CHOOSE i \in 1..Len(mapped) :
                        mapped[i].tag = "Panic"
                        /\ \A j \in 1..(i - 1) : mapped[j].tag # "Panic"]
        ELSE Ok(join([i \in 1..Len(mapped) |-> mapped[i].val], "/"))

base_path(r) ==
    IF r.context = "ApiGateway"
    THEN IF is_default_api_gateway_url(r)
         THEN Ok(<<"/">> \o r.stage)
         ELSE LET resource_path == populate_resource_path(r, r.resource_path)
              IN  IF resource_path.tag = "Panic" THEN resource_path
                  ELSE LET resource_path_index == rfind(r.path, resource_path.val)
                       IN  IF resource_path_index = None
                           THEN Panic("Could not find segment in path")
                           ELSE Ok(SubSeq(r.path, 1, The(resource_path_index)))
    ELSE Ok(<<>>)

\* variant: the base path is put in front whatever the host
full_path_always_prefixed(r) ==
    LET path == base_path(r)
    IN  IF path.tag = "Panic" THEN path ELSE Ok(path.val \o r.path)

full_path(r) ==
    IF is_alb(r) \/ ~is_default_api_gateway_url(r)
    THEN Ok(r.path)
    ELSE LET path == base_path(r)
         IN  IF path.tag = "Panic" THEN path ELSE Ok(path.val \o r.path)

api_path(r) ==
    IF is_alb(r) \/ is_default_api_gateway_url(r)
    THEN Ok(r.path)
    ELSE LET base == base_path(r)
         IN  IF base.tag = "Panic" THEN base
             ELSE Ok(SubSeq(r.path, Len(base.val) + 1, Len(r.path)))

---------------------------------------------------------------------------
(* src/src/config.rs *)

ResponseType == {"Text", "Binary"}

BasePathBehaviour == {"RemountAndInclude", "Include", "Exclude"}

\* HashMap::new(): the function with the empty domain
EmptyMap == [k \in {} |-> "Text"]

\* HashMap::insert: last write wins
map_insert(m, key, value) ==
    [k \in (DOMAIN m) \cup {key} |-> IF k = key THEN value ELSE m[k]]

\* HashMap::get(..).copied().unwrap_or(default)
map_get_or(m, key, default) == IF key \in DOMAIN m THEN m[key] ELSE default

Config_default ==
    [default_response_type |-> "Text",
     response_types |-> EmptyMap,
     base_path_behaviour |-> "RemountAndInclude"]

---------------------------------------------------------------------------
(* src/src/builder.rs: the builder methods as functions of the builder *)

new(rocket) == [rocket |-> rocket, config |-> Config_default]

get_default_response_type(b) == b.config.default_response_type

set_default_response_type(b, rt) ==
    [b EXCEPT !.config.default_response_type = rt]

\* variant: the content type is stored as given, not lower-cased
set_response_type_as_given(b, content_type, rt) ==
    [b EXCEPT !.config.response_types = map_insert(@, content_type, rt)]

get_response_type(b, content_type) ==
    map_get_or(b.config.response_types, to_lowercase(content_type),
               b.config.default_response_type)

set_response_type(b, content_type, rt) ==
    [b EXCEPT !.config.response_types =
                  map_insert(@, to_lowercase(content_type), rt)]

set_base_path_behaviour(b, setting) ==
    [b EXCEPT !.config.base_path_behaviour = setting]

uninitialized(rocket) == [tag |-> "Uninitialized", rocket |-> rocket]

Placeholder == [tag |-> "Placeholder"]

\* variant: the constructed client is never stored, the Placeholder stays
ready_not_stored(rocket) == Placeholder

\* variant: the Rocket is put back as Uninitialized after construction
ready_put_back(rocket) == uninitialized(rocket)

ready(rocket) == [tag |-> "Ready", rocket |-> rocket]

\* into_handler: the Rocket and the Config move into the handler
make_handler(b) == [client |-> uninitialized(b.rocket), config |-> b.config]

---------------------------------------------------------------------------
(* src/src/handler.rs.  The handler reads three settings of its Config.   *)

default_response_type_of(h) == h.config.default_response_type

response_types_of(h) == h.config.response_types

\* the flag is set for the two settings that include the base path
include_api_gateway_base_path(h) == h.config.base_path_behaviour # "Exclude"

get_api_gateway_base_path(h, r) ==
    IF ~include_api_gateway_base_path(h) THEN None
    ELSE LET host == HostText(r)
         IN  IF host = None THEN None
             ELSE IF ends_with(The(host), AmazonawsCom) /\ r.context = "ApiGateway"
                  THEN Some(<<"/">> \o r.stage)
                  ELSE None

\* Uri::percent_encode: a character outside the unreserved set becomes %XX
percent_encode_char(c) ==
    CASE c = "&" -> <<"%", "2", "6">>
      [] c = " " -> <<"%", "2", "0">>
      [] c = "=" -> <<"%", "3", "D">>
      [] OTHER -> <<c>>

RECURSIVE percent_encode(_)
percent_encode(str) ==
    IF Len(str) = 0 THEN <<>>
    ELSE percent_encode_char(Head(str)) \o percent_encode(Tail(str))

\* variant: only the first value of a key is written
push_values_first_only(uri, separator, key, values) ==
    IF Len(values) = 0 THEN <<uri, separator>>
    ELSE <<uri \o <<separator>> \o percent_encode(key) \o <<"=">>
               \o percent_encode(Head(values)),
           "&">>

\* the inner loop: the values of one key; returns <<uri, separator>>
RECURSIVE push_values(_, _, _, _)
push_values(uri, separator, key, values) ==
    IF Len(values) = 0 THEN <<uri, separator>>
    ELSE push_values(uri \o <<separator>> \o percent_encode(key) \o <<"=">>
                         \o percent_encode(Head(values)),
                     "&", key, Tail(values))

\* the outer loop over the keys
RECURSIVE push_query(_, _, _)
push_query(uri, separator, query) ==
    IF Len(query) = 0 THEN uri
    ELSE LET pushed == push_values(uri, separator, Head(query)[1], Head(query)[2])
         IN  push_query(pushed[1], pushed[2], Tail(query))

get_path_and_query(h, r) ==
    LET base == get_api_gateway_base_path(h, r)
        uri == IF base = None THEN r.path ELSE The(base) \o r.path
    IN  push_query(uri, "?", r.query)

\* variant: PATCH falls into the arm of PUT
to_rocket_method_patch_as_put(method) ==
    CASE method = "GET" -> Ok("Get")
      [] method \in {"PUT", "PATCH"} -> Ok("Put")
      [] method = "POST" -> Ok("Post")
      [] method = "DELETE" -> Ok("Delete")
      [] method = "OPTIONS" -> Ok("Options")
      [] method = "HEAD" -> Ok("Head")
      [] method = "TRACE" -> Ok("Trace")
      [] method = "CONNECT" -> Ok("Connect")
      [] OTHER -> InvalidRequest("unknown method", method)

to_rocket_method(method) ==
    CASE method = "GET" -> Ok("Get")
      [] method = "PUT" -> Ok("Put")
      [] method = "POST" -> Ok("Post")
      [] method = "DELETE" -> Ok("Delete")
      [] method = "OPTIONS" -> Ok("Options")
      [] method = "HEAD" -> Ok("Head")
      [] method = "TRACE" -> Ok("Trace")
      [] method = "CONNECT" -> Ok("Connect")
      [] method = "PATCH" -> Ok("Patch")
      [] OTHER -> InvalidRequest("unknown method", method)

\* client(): the Client of a Ready handler, a panic otherwise
client(h) ==
    IF h.client.tag = "Ready" THEN Ok(h.client.rocket)
    ELSE Panic("Rocket client wasn't ready")

\* the header loop: the headers as text, or the first header that is not text
RECURSIVE add_headers(_, _)
add_headers(added, headers) ==
    IF Len(headers) = 0 THEN Ok(added)
    ELSE LET v == to_str(Head(headers)[2])
         IN  IF v = None
             THEN InvalidRequest("invalid value for header", Head(headers)[1])
             ELSE add_headers(Append(added, <<Head(headers)[1], The(v)>>),
                              Tail(headers))

create_rocket_request(h, r) ==
    LET method == to_rocket_method(r.method)
    IN  IF method.tag # "Ok" THEN method
        ELSE LET uri == get_path_and_query(h, r)
                 c == client(h)
             IN  IF c.tag # "Ok" THEN c
                 ELSE LET hs == add_headers(<<>>, r.headers)
                      IN  IF hs.tag # "Ok" THEN hs
                          ELSE Ok([method |-> method.val, uri |-> uri,
                                   headers |-> hs.val, body |-> r.body])

---------------------------------------------------------------------------
(* The embedded Rocket application, as far as the handler depends on it:   *)
(* a route table, whether it can be launched, and what its handlers and    *)
(* catchers answer (an output the application chooses).                    *)

\* the non-empty segments of a path: Rocket routes "/a" and "/a/" alike
segments_of(path) == SelectSeq(split(path, "/"), LAMBDA seg : seg # <<>>)

\* the path of a URI: what precedes the first '?'
path_of(uri) == split(uri, "?")[1]

\* Rocket::mount(base, routes): every route again, under base
mount(rocket, base, routes) ==
    [rocket EXCEPT !.routes =
        @ \o [i \in 1..Len(routes) |-> base \o routes[i]]]

collides(routes) ==
    \E i, j \in 1..Len(routes) :
        i < j /\ segments_of(routes[i]) = segments_of(routes[j])

\* Client::untracked: a LaunchError for colliding routes or a failed fairing
untracked(rocket) ==
    IF rocket.misconfigured \/ collides(rocket.routes)
    THEN [tag |-> "Err", err |-> "LaunchError"]
    ELSE Ok(rocket)

\* LocalRequest::dispatch: the status follows from the route table; headers
\* and body are the application's
dispatch(rocket, lreq, out) ==
    [status |-> IF \E i \in 1..Len(rocket.routes) :
                      segments_of(rocket.routes[i]) = segments_of(path_of(lreq.uri))
                THEN "200" ELSE "404",
     headers |-> out.headers,
     body |-> out.body,
     uri |-> lreq.uri]

\* Body::into_bytes: None when the body cannot be read
into_bytes(b) == IF b.readable THEN Some(b.bytes) ELSE None

\* variant: the bytes are handed over as text whatever they are
into_string_lossy(b) == IF b.readable THEN Some(b.bytes) ELSE None

\* Body::into_string: None also when the bytes are not UTF-8
into_string(b) ==
    IF b.readable /\ \A i \in 1..Len(b.bytes) : b.bytes[i] # "xFF"
    THEN Some(b.bytes) ELSE None

\* http::response::Builder: a header value holding a line break is refused
valid_header(hd) == \A i \in 1..Len(hd[2]) : hd[2][i] # "\n"

content_type_of(local_res) ==
    LET v == header_get(local_res.headers, "content-type")
    IN  IF v = None THEN <<>> ELSE The(v)

\* variant: the whole header value is looked up, parameters included
response_type_for_whole_value(h, local_res) ==
    map_get_or(response_types_of(h),
               to_lowercase(content_type_of(local_res)),
               default_response_type_of(h))

response_type_for(h, local_res) ==
    map_get_or(response_types_of(h),
               to_lowercase(split(content_type_of(local_res), ";")[1]),
               default_response_type_of(h))

create_lambda_response(h, local_res) ==
    LET response_type == response_type_for(h, local_res)
        body == IF local_res.body = None THEN Ok([kind |-> "Empty", data |-> <<>>])
                ELSE IF response_type = "Text"
                THEN LET str == into_string(The(local_res.body))
                     IN  IF str = None
                         THEN InvalidResponse("response body was not text")
                         ELSE Ok([kind |-> "Text", data |-> The(str)])
                ELSE LET bytes == into_bytes(The(local_res.body))
                     IN  Ok([kind |-> "Binary",
                             data |-> IF bytes = None THEN <<>> ELSE The(bytes)])
    IN  IF body.tag # "Ok" THEN body
        ELSE IF \E i \in 1..Len(local_res.headers) : ~valid_header(local_res.headers[i])
        THEN InvalidResponse("builder")
        ELSE Ok([status |-> local_res.status,
                 headers |-> local_res.headers,
                 body |-> body.val])

\* process_request: <<the result, the LocalRequest dispatched if any>>
process_request(h, r, out) ==
    LET local == create_rocket_request(h, r)
    IN  IF local.tag # "Ok" THEN <<local, None>>
        ELSE LET local_res == dispatch(h.client.rocket, local.val, out)
             IN  <<create_lambda_response(h, local_res), Some(local.val)>>

---------------------------------------------------------------------------
(* The operations of the program *)

\* builder.rs: default_response_type(rt)
default_response_type(rt) ==
    /\ pc = "builder"
    /\ Len(calls) < MaxBuilderCalls
    /\ builder' = {set_default_response_type(The(builder), rt)}
    /\ calls' = Append(calls, [op |-> "default_response_type",
                               content_type |-> <<>>, arg |-> rt])
    /\ UNCHANGED <<pc, handler, local_rocket, req, local_req, result,
                   invocations, initialised_by, constructions>>

\* builder.rs: response_type(content_type, rt)
response_type(content_type, rt) ==
    /\ pc = "builder"
    /\ Len(calls) < MaxBuilderCalls
    /\ builder' = {set_response_type(The(builder), content_type, rt)}
    /\ calls' = Append(calls, [op |-> "response_type",
                               content_type |-> content_type, arg |-> rt])
    /\ UNCHANGED <<pc, handler, local_rocket, req, local_req, result,
                   invocations, initialised_by, constructions>>

\* builder.rs: base_path_behaviour(setting)
base_path_behaviour(setting) ==
    /\ pc = "builder"
    /\ Len(calls) < MaxBuilderCalls
    /\ builder' = {set_base_path_behaviour(The(builder), setting)}
    /\ calls' = Append(calls, [op |-> "base_path_behaviour",
                               content_type |-> <<>>, arg |-> setting])
    /\ UNCHANGED <<pc, handler, local_rocket, req, local_req, result,
                   invocations, initialised_by, constructions>>

\* builder.rs: into_handler consumes the builder
into_handler ==
    /\ pc = "builder"
    /\ handler' = {make_handler(The(builder))}
    /\ builder' = None
    /\ calls' = <<>>
    /\ pc' = "idle"
    /\ UNCHANGED <<local_rocket, req, local_req, result,
                   invocations, initialised_by, constructions>>

\* handler.rs: run is called with request r
run(r) ==
    /\ pc = "idle"
    /\ invocations < MaxInvocations
    /\ invocations' = invocations + 1
    /\ req' = {r}
    /\ local_req' = None
    /\ pc' = "ensure_client_ready"
    /\ UNCHANGED <<builder, calls, handler, local_rocket, result,
                   initialised_by, constructions>>

\* handler.rs 37-43 and 51-52: the match on the LazyClient; an Uninitialized
\* client is replaced by Placeholder and its Rocket moved out
ensure_client_ready ==
    /\ pc = "ensure_client_ready"
    /\ LET h == The(handler)
       IN  CASE h.client.tag = "Uninitialized" ->
                  /\ handler' = {[h EXCEPT !.client = Placeholder]}
                  /\ local_rocket' = {h.client.rocket}
                  /\ initialised_by' = Append(initialised_by, invocations)
                  /\ pc' = "initialise"
                  /\ UNCHANGED result
             [] h.client.tag = "Ready" ->
                  /\ pc' = "process_request"
                  /\ UNCHANGED <<handler, local_rocket, initialised_by, result>>
             [] h.client.tag = "Placeholder" ->
                  /\ pc' = "panicking"
                  /\ result' = Panic("LazyClient has previously begun initialiation.")
                  /\ UNCHANGED <<handler, local_rocket, initialised_by>>
    /\ UNCHANGED <<builder, calls, req, local_req, invocations, constructions>>

\* the Rocket that Client::untracked is given: remounted under the base path
remounted(h, r, rocket) ==
    LET base == get_api_gateway_base_path(h, r)
    IN  IF base = None THEN rocket ELSE mount(rocket, The(base), rocket.routes)

\* handler.rs 44-49: remount, construct the Client, store Ready; the unwrap
\* of a LaunchError panics with the Placeholder still in place
initialise_client ==
    /\ pc = "initialise"
    /\ LET h == The(handler)
           made == untracked(remounted(h, The(req), The(local_rocket)))
       IN  IF made.tag = "Ok"
           THEN /\ handler' = {[h EXCEPT !.client = ready(made.val)]}
                /\ pc' = "process_request"
                /\ UNCHANGED result
           ELSE /\ pc' = "panicking"
                /\ result' = Panic("called unwrap on a LaunchError")
                /\ UNCHANGED handler
    /\ local_rocket' = None
    /\ constructions' = constructions + 1
    /\ UNCHANGED <<builder, calls, req, local_req, invocations, initialised_by>>

\* variant: an invocation that fails throws its client away
do_process_request_resetting(out) ==
    /\ pc = "process_request"
    /\ LET h == The(handler)
           done == process_request(h, The(req), out)
       IN  /\ result' = done[1]
           /\ local_req' = done[2]
           /\ handler' = IF done[1].tag = "Err"
                         THEN {[h EXCEPT !.client = uninitialized(h.client.rocket)]}
                         ELSE handler
           /\ pc' = IF done[1].tag = "Panic" THEN "panicking" ELSE "idle"
    /\ UNCHANGED <<builder, calls, local_rocket, req,
                   invocations, initialised_by, constructions>>

\* variant: an invocation that fails is tried again
do_process_request_retrying(out) ==
    /\ pc = "process_request"
    /\ LET done == process_request(The(handler), The(req), out)
       IN  /\ result' = done[1]
           /\ local_req' = done[2]
           /\ pc' = IF done[1].tag = "Err" THEN "process_request" ELSE "idle"
    /\ UNCHANGED <<builder, calls, handler, local_rocket, req,
                   invocations, initialised_by, constructions>>

\* handler.rs 29-31 and 63-67: process_request, and run returns its result
do_process_request(out) ==
    /\ pc = "process_request"
    /\ LET done == process_request(The(handler), The(req), out)
       IN  /\ result' = done[1]
           /\ local_req' = done[2]
           /\ pc' = IF done[1].tag = "Panic" THEN "panicking" ELSE "idle"
    /\ UNCHANGED <<builder, calls, handler, local_rocket, req,
                   invocations, initialised_by, constructions>>

\* a panic unwinds out of run: the caller still owns the handler
unwind ==
    /\ pc = "panicking"
    /\ pc' = "idle"
    /\ UNCHANGED <<builder, calls, handler, local_rocket, req, local_req,
                   result, invocations, initialised_by, constructions>>

\* a panic aborts the process (panic = "abort", or nobody catches it)
abort ==
    /\ pc = "panicking"
    /\ pc' = "aborted"
    /\ UNCHANGED <<builder, calls, handler, local_rocket, req, local_req,
                   result, invocations, initialised_by, constructions>>

---------------------------------------------------------------------------
(* The inputs: applications, builder arguments, requests, application      *)
(* outputs.  Routes "/a" and "/s/a"; stage "s"; a custom-domain base path "/s". *)

Methods == {"GET", "PUT", "POST", "DELETE", "OPTIONS", "HEAD", "TRACE",
            "CONNECT", "PATCH"}

OtherMethods == {"FOOBAR", "get"}

DefaultHost == <<"id", ".execute-api.", "region", ".amazonaws.com">>

OtherAwsHost == <<"id", ".amazonaws.com">>

CustomHost == <<"example.com">>

NonTextHost == <<"xFF">>

Request(method, context, headers, resource_path, path_parameters, path, query) ==
    [method |-> method,
     context |-> context,
     headers |-> headers,
     stage |-> IF context = "ApiGateway" THEN <<"s">> ELSE <<>>,
     resource_path |-> IF context = "ApiGateway" THEN resource_path ELSE <<>>,
     path_parameters |-> IF context = "ApiGateway" THEN path_parameters
                         ELSE [k \in {} |-> <<>>],
     path |-> path,
     query |-> query,
     body |-> <<"x">>]

\* the path parameters {"p": "a"}
ParamA == [k \in {<<"p">>} |-> <<"a">>]

HostHeader(host) == <<<<"host", host>>>>

\* the hosting scenarios: <<context, headers, resource path, path>>
Scenarios ==
    {<<"ApiGateway", HostHeader(DefaultHost), <<"/", "a">>, <<"/", "a">>>>,
     <<"ApiGateway", HostHeader(DefaultHost), <<"/", "b">>, <<"/", "b">>>>,
     <<"ApiGateway", HostHeader(OtherAwsHost), <<"/", "a">>, <<"/", "a">>>>,
     <<"ApiGateway", HostHeader(CustomHost), <<"/", "a">>, <<"/", "a">>>>,
     <<"ApiGateway", HostHeader(CustomHost), <<"/", "a">>, <<"/", "s", "/", "a">>>>,
     <<"ApiGateway", HostHeader(CustomHost), <<"/", "{", "p", "}">>, <<"/", "s", "/", "a">>>>,
     <<"ApiGateway", HostHeader(CustomHost), <<"/", "a">>, <<"/", "b">>>>,
     <<"ApiGateway", <<>>, <<"/", "a">>, <<"/", "a">>>>,
     <<"ApiGateway", HostHeader(NonTextHost), <<"/", "a">>, <<"/", "a">>>>,
     <<"Alb", HostHeader(OtherAwsHost), <<>>, <<"/", "a">>>>,
     <<"Alb", HostHeader(CustomHost), <<>>, <<"/", "s", "/", "a">>>>}

Queries ==
    {<<>>,
     <<<<<<"k">>, <<<<"v">>, <<"&">>>>>>>>,
     <<<<<<"k">>, <<<<"v">>>>>>, <<<<"j">>, <<<<"w">>>>>>>>}

\* every scenario as a GET; the first scenario with every method, with a
\* header that is not text, and with every query
Requests ==
    {Request("GET", sc[1], sc[2], sc[3], ParamA, sc[4], <<>>) : sc \in Scenarios}
    \cup {Request(m, "ApiGateway", HostHeader(DefaultHost), <<"/", "a">>,
                  ParamA, <<"/", "a">>, <<>>) : m \in Methods \cup OtherMethods}
    \cup {Request(m, "ApiGateway",
                  HostHeader(DefaultHost) \o <<<<"x-bin", <<"xFF">>>>>>,
                  <<"/", "a">>, ParamA, <<"/", "a">>, <<>>) : m \in {"GET", "FOOBAR"}}
    \cup {Request("GET", "ApiGateway", HostHeader(DefaultHost), <<"/", "a">>,
                  ParamA, <<"/", "a">>, q) : q \in Queries}

\* the applications: routes mounted at the root; one that also mounted its
\* routes under "/s" itself; one whose launch check fails
Rockets ==
    {[routes |-> <<<<"/", "a">>>>, misconfigured |-> FALSE],
     [routes |-> <<<<"/", "a">>, <<"/", "s", "/", "a">>>>, misconfigured |-> FALSE],
     [routes |-> <<<<"/", "a">>>>, misconfigured |-> TRUE]}

ContentTypeHeader(ct) == <<<<"content-type", ct>>>>

Body(bytes, readable) == Some([bytes |-> bytes, readable |-> readable])

\* what the application's handler or catcher answers
AppOutputs ==
    {[headers |-> <<>>, body |-> None],
     [headers |-> ContentTypeHeader(<<"t", "/", "p", ";", "c">>),
      body |-> Body(<<"o", "k">>, TRUE)],
     [headers |-> ContentTypeHeader(<<"T", "/", "P">>),
      body |-> Body(<<"xFF">>, TRUE)],
     [headers |-> ContentTypeHeader(<<"a">>), body |-> Body(<<"xFF">>, TRUE)],
     [headers |-> ContentTypeHeader(<<"a">>), body |-> Body(<<"o">>, FALSE)],
     [headers |-> <<<<"x-bad", <<"\n">>>>>>, body |-> Body(<<"o", "k">>, TRUE)]}

\* the content type given to response_type
ContentTypes == {<<"T", "/", "P">>}

---------------------------------------------------------------------------
(* The program: a builder is made, configured and turned into a handler,   *)
(* and the handler is run on one request after the other.                  *)

Init ==
    /\ pc = "builder"
    /\ \E rocket \in Rockets : builder = {new(rocket)}
    /\ calls = <<>>
    /\ handler = None
    /\ local_rocket = None
    /\ req = None
    /\ local_req = None
    /\ result = [tag |-> "None"]
    /\ invocations = 0
    /\ initialised_by = <<>>
    /\ constructions = 0

Next ==
    \/ \E rt \in ResponseType : default_response_type(rt)
    \/ \E ct \in ContentTypes, rt \in ResponseType : response_type(ct, rt)
    \/ \E setting \in BasePathBehaviour : base_path_behaviour(setting)
    \/ into_handler
    \/ \E r \in Requests : run(r)
    \/ ensure_client_ready
    \/ initialise_client
    \/ \E out \in AppOutputs : do_process_request(out)
    \/ unwind
    \/ abort

Spec == Init /\ [][Next]_vars

---------------------------------------------------------------------------
(* The claims about the LazyClient *)

ClientTag == (The(handler)).client.tag

\* run has returned a value (not panicked) in the invocation just finished
Returned == pc = "idle" /\ invocations > 0 /\ result.tag \in {"Ok", "Err"}

C2_ReadyWhenDispatching ==
    /\ (pc = "process_request" => ClientTag = "Ready")
    /\ (local_req # None => ClientTag = "Ready")
    /\ result # Panic("Rocket client wasn't ready")

\* the first invocation has dispatched its request and returned a response
C2_Witness ==
    /\ Returned /\ invocations = 1 /\ result.tag = "Ok" /\ local_req # None

\* C3 as stated: at the start and at the end of every invocation the
\* LazyClient is Uninitialized or Ready, and the branch for a Placeholder
\* found on entry is never taken.
C3_NeverPlaceholderBetweenInvocations ==
    /\ (pc \in {"idle", "ensure_client_ready"} =>
            ClientTag \in {"Uninitialized", "Ready"})
    /\ result # Panic("LazyClient has previously begun initialiation.")

\* C4 as stated: a handler invoked again after a panic of an earlier
\* invocation does not find its LazyClient in Placeholder.
C4_NoPlaceholderAfterDefect ==
    pc = "ensure_client_ready" /\ result.tag = "Panic" => ClientTag # "Placeholder"

\* C5: an invocation that returns InvalidRequest or InvalidResponse leaves
\* the LazyClient Ready, also when it is the first one; process_request
\* changes neither the client nor the Config whatever it returns, so the
\* handler the next invocation finds is the one a successful invocation
\* would have left; and the Config never changes once the handler exists.
C5_ErrorsLeaveHandlerAsSuccessWould ==
    /\ [](Returned /\ result.tag = "Err" => ClientTag = "Ready")
    /\ [][pc = "process_request" => handler' = handler]_vars
    /\ [][handler # None /\ handler' # None =>
            (The(handler')).config = (The(handler)).config]_vars

\* the very first invocation has returned InvalidResponse, the client is Ready
C5_Witness ==
    /\ Returned /\ invocations = 1 /\ result.tag = "Err"
    /\ result.err = "InvalidResponse" /\ ClientTag = "Ready"

---------------------------------------------------------------------------
(* The builder on its own, with content types in every letter case *)

BuilderContentTypes ==
    {<<>>, <<"t", "/", "p">>, <<"T", "/", "P">>, <<"T", "/", "p">>, <<"a">>}

NextBuilder ==
    \/ \E rt \in ResponseType : default_response_type(rt)
    \/ \E ct \in BuilderContentTypes, rt \in ResponseType : response_type(ct, rt)
    \/ \E setting \in BasePathBehaviour : base_path_behaviour(setting)
    \/ into_handler

SpecBuilder == Init /\ [][NextBuilder]_vars

\* two letters that differ at most in case
SameLetter(a, b) ==
    \/ a = b
    \/ {a, b} \in {{"t", "T"}, {"p", "P"}, {"a", "A"}}

EqualIgnoringCase(x, y) ==
    Len(x) = Len(y) /\ \A i \in 1..Len(x) : SameLetter(x[i], y[i])

Last(indices) == CHOOSE i \in indices : \A j \in indices : j <= i

\* what the calls made so far say about a content type
ExpectedResponseType(content_type) ==
    LET overrides == {i \in 1..Len(calls) :
                        /\ calls[i].op = "response_type"
                        /\ EqualIgnoringCase(calls[i].content_type, content_type)}
        defaults == {i \in 1..Len(calls) : calls[i].op = "default_response_type"}
    IN  IF overrides # {} THEN calls[Last(overrides)].arg
        ELSE IF defaults # {} THEN calls[Last(defaults)].arg
        ELSE "Text"

---------------------------------------------------------------------------
(* The claims about request translation *)

\* the local method of the same name
SameNamed ==
    {<<"GET", "Get">>, <<"PUT", "Put">>, <<"POST", "Post">>,
     <<"DELETE", "Delete">>, <<"OPTIONS", "Options">>, <<"HEAD", "Head">>,
     <<"TRACE", "Trace">>, <<"CONNECT", "Connect">>, <<"PATCH", "Patch">>}

TheReq == The(req)

\* C7: an invocation whose method is one of the nine is not refused for its
\* method and the LocalRequest it dispatches carries the same-named local
\* method; an invocation with any other method returns InvalidRequest
\* naming that method and dispatches nothing.
C7_MethodMapping ==
    Returned =>
        IF \E pair \in SameNamed : pair[1] = TheReq.method
        THEN /\ ~(result.tag = "Err" /\ result.kind = "unknown method")
             /\ \A lr \in local_req : <<TheReq.method, lr.method>> \in SameNamed
        ELSE /\ result = InvalidRequest("unknown method", TheReq.method)
             /\ local_req = None

\* a PATCH was dispatched as Patch
C7_Witness ==
    /\ Returned /\ TheReq.method = "PATCH"
    /\ \E lr \in local_req : lr.method = "Patch"

---------------------------------------------------------------------------
(* The path functions of request_ext.rs on their own: every path over      *)
(* {'/', 'a', 'b'} up to MaxPathLen, every host, a set of resource paths.  *)

PathChars == {"/", "a", "b"}

Paths ==
    {<<"/">> \o tail : tail \in UNION {[1..n -> PathChars] : n \in 0..(MaxPathLen - 1)}}

ResourcePaths ==
    {<<"/">>, <<"/", "a">>, <<"/", "{", "p", "}">>, <<"/", "{", "p", "+", "}">>,
     <<"/", "a", "/", "{", "p", "}">>, <<"/", "{", "q", "}">>}

PathParameters ==
    {ParamA,
     [k \in {<<"p">>} |-> <<"a", "/", "b">>],
     [k \in {<<"p">>} |-> <<"b">>]}

HostHeaders ==
    {<<>>, HostHeader(DefaultHost), HostHeader(OtherAwsHost),
     HostHeader(CustomHost), HostHeader(NonTextHost),
     HostHeader(<<"id", ".execute-api.", "example.com">>)}

PathRequests ==
    {Request("GET", "ApiGateway", hs, rp, pp, path, <<>>) :
        hs \in HostHeaders, rp \in ResourcePaths, pp \in PathParameters, path \in Paths}
    \cup {Request("GET", "Alb", hs, <<>>, ParamA, path, <<>>) :
        hs \in HostHeaders, path \in Paths}

InitPaths ==
    /\ pc = "request_ext"
    /\ \E r \in PathRequests : req = {r}
    /\ builder = None
    /\ calls = <<>>
    /\ handler = None
    /\ local_rocket = None
    /\ local_req = None
    /\ result = [tag |-> "None"]
    /\ invocations = 0
    /\ initialised_by = <<>>
    /\ constructions = 0

\* the three functions of RequestExt applied to the request
resolve_paths ==
    /\ pc = "request_ext"
    /\ result' = [tag |-> "Paths",
                  base_path |-> base_path(The(req)),
                  full_path |-> full_path(The(req)),
                  api_path |-> api_path(The(req))]
    /\ pc' = "resolved"
    /\ UNCHANGED <<builder, calls, handler, local_rocket, req, local_req,
                   invocations, initialised_by, constructions>>

NextPaths == resolve_paths

SpecPaths == InitPaths /\ [][NextPaths]_vars

\* a placeholder segment {name} or {name+}: the name it holds
IsPlaceholder(segment) ==
    Len(segment) >= 2 /\ segment[1] = "{" /\ segment[Len(segment)] = "}"

PlaceholderName(segment) ==
    LET inner == SubSeq(segment, 2, Len(segment) - 1)
    IN  IF Len(inner) > 0 /\ inner[Len(inner)] = "+"
        THEN SubSeq(inner, 1, Len(inner) - 1) ELSE inner

\* every placeholder of the resource path names a path parameter
Substitutable(r) ==
    LET segs == split(r.resource_path, "/")
    IN  \A i \in 1..Len(segs) :
            IsPlaceholder(segs[i]) => PlaceholderName(segs[i]) \in DOMAIN r.path_parameters

\* T: the resource path with every placeholder replaced by its parameter
Substituted(r) ==
    LET segs == split(r.resource_path, "/")
    IN  join([i \in 1..Len(segs) |->
                 IF IsPlaceholder(segs[i])
                 THEN r.path_parameters[PlaceholderName(segs[i])]
                 ELSE segs[i]], "/")

OnCustomDomain(r) ==
    r.context = "ApiGateway" /\ ~is_default_api_gateway_url(r)

\* C9: on a custom domain, with T the substituted resource path: if T occurs
\* in the path, base_path returns a prefix of the path, and base_path
\* followed by T is a prefix of the path too; if T does not occur, base_path
\* panics and returns no error value.
C9_CustomDomainBasePath ==
    pc = "resolved" /\ OnCustomDomain(TheReq) /\ Substitutable(TheReq) =>
        LET T == Substituted(TheReq)
            path == TheReq.path
        IN  IF \E i \in 0..Len(path) : starts_with(SubSeq(path, i + 1, Len(path)), T)
            THEN /\ result.base_path.tag = "Ok"
                 /\ starts_with(path, result.base_path.val)
                 /\ starts_with(path, result.base_path.val \o T)
            ELSE result.base_path.tag = "Panic"

\* "/{p}" stands for "/a", found in the path "/b/a": the base path is "/b"
C9_Witness ==
    /\ pc = "resolved" /\ OnCustomDomain(TheReq)
    /\ TheReq.resource_path = <<"/", "{", "p", "}">>
    /\ TheReq.path_parameters = ParamA
    /\ TheReq.path = <<"/", "b", "/", "a">>
    /\ result.base_path = Ok(<<"/", "b">>)

---------------------------------------------------------------------------
(* The claims about the base path in the dispatched URI *)

Mode == (The(handler)).config.base_path_behaviour

\* the Host header is text, ends with ".amazonaws.com" and contains
\* ".execute-api."
HostIsDefaultDomain(r) ==
    \E i \in 1..Len(r.headers) :
        /\ r.headers[i][1] = "host"
        /\ \A j \in 1..(i - 1) : r.headers[j][1] # "host"
        /\ \A k \in 1..Len(r.headers[i][2]) : r.headers[i][2][k] # "xFF"
        /\ r.headers[i][2][Len(r.headers[i][2])] = ".amazonaws.com"
        /\ \E k \in 1..Len(r.headers[i][2]) : r.headers[i][2][k] = ".execute-api."

\* C8 as stated: an API-Gateway request whose Host passes both tests has
\* the base path "/" + stage, in base_path and in the URI the handler
\* dispatches when the base path is included; a request whose Host is
\* absent, not text or fails either test is not treated as a default-domain
\* request: nothing is put in front of its path.
C8_DefaultDomainDetection ==
    Returned =>
        IF TheReq.context = "ApiGateway" /\ HostIsDefaultDomain(TheReq)
        THEN /\ base_path(TheReq) = Ok(<<"/">> \o TheReq.stage)
             /\ Mode # "Exclude" =>
                    \A lr \in local_req :
                        path_of(lr.uri) = <<"/">> \o TheReq.stage \o TheReq.path
        ELSE /\ ~is_default_api_gateway_url(TheReq)
             /\ \A lr \in local_req : path_of(lr.uri) = TheReq.path

\* C10 as stated, both modes: the dispatched path is the full path (base
\* path at its front) under Include and RemountAndInclude, and the full path
\* without the resolved base path under Exclude, where it then does not
\* start with a non-empty base path.
DispatchedPathFollowsMode ==
    Returned /\ full_path(TheReq).tag = "Ok" /\ base_path(TheReq).tag = "Ok" =>
        LET full == full_path(TheReq).val
            base == base_path(TheReq).val
        IN  \A lr \in local_req :
                IF Mode = "Exclude"
                THEN /\ starts_with(full, base)
                     /\ path_of(lr.uri) = SubSeq(full, Len(base) + 1, Len(full))
                     /\ base # <<>> => ~starts_with(path_of(lr.uri), base)
                ELSE /\ starts_with(full, base)
                     /\ path_of(lr.uri) = full

\* C10 as stated for Exclude: for every request, the dispatched path is the
\* full path with the resolved base path removed from its front.
C10_ExcludeRemovesBasePath ==
    Returned /\ Mode = "Exclude"
    /\ full_path(TheReq).tag = "Ok" /\ base_path(TheReq).tag = "Ok" =>
        LET full == full_path(TheReq).val
            base == base_path(TheReq).val
        IN  \A lr \in local_req :
                /\ starts_with(full, base)
                /\ path_of(lr.uri) = SubSeq(full, Len(base) + 1, Len(full))

---------------------------------------------------------------------------
(* The claims about remounting *)

\* the route table of the Client the handler holds
Routes == (The(handler)).client.rocket.routes

\* the base path request_ext.rs resolves for the request being handled
ResolvedBase == base_path(TheReq)

NonEmptyResolvedBase == ResolvedBase.tag = "Ok" /\ ResolvedBase.val # <<>>

\* no route of the table lies under the base path
RootOnly(routes, base) ==
    \A i \in 1..Len(routes) :
        ~starts_with(segments_of(routes[i]), segments_of(base))

\* C11 as stated: under Include the first invocation never remounts; so a
\* request with a non-empty resolved base path, against routes mounted only
\* at the root, is dispatched with the base path in its URI and matches no
\* route (404), and under RemountAndInclude the same request matches the
\* route remounted under the base path (200).
C11_IncludeNeverRemounts ==
    /\ [][pc = "initialise" /\ Mode = "Include" /\ NonEmptyResolvedBase
          /\ ClientTag' = "Ready" =>
            Routes' = (The(local_rocket)).routes]_vars
    /\ [](Returned /\ invocations = 1 /\ Mode = "Include" /\ result.tag = "Ok"
          /\ NonEmptyResolvedBase /\ RootOnly(Routes, ResolvedBase.val) =>
            /\ result.val.status = "404"
            /\ \A lr \in local_req :
                   starts_with(path_of(lr.uri), ResolvedBase.val))
    /\ [](Returned /\ invocations = 1 /\ Mode = "RemountAndInclude"
          /\ result.tag = "Ok" /\ NonEmptyResolvedBase
          /\ api_path(TheReq).tag = "Ok"
          /\ (\E i \in 1..Len(Routes) :
                segments_of(Routes[i]) = segments_of(api_path(TheReq).val)) =>
            result.val.status = "200")

---------------------------------------------------------------------------
(* The claim about the three settings when there is no base path *)

\* the same handler under another setting of base_path_behaviour
WithMode(h, m) == [h EXCEPT !.config.base_path_behaviour = m]

\* C12 as stated: whenever the resolved base path is empty, the three
\* settings are observationally equivalent: the route table after
\* initialisation, the dispatched URI and the response returned are the same
\* under each of them.
C12_ModesEquivalentOnEmptyBase ==
    req # None /\ ResolvedBase = Ok(<<>>) =>
        /\ pc = "initialise" =>
               \A m \in BasePathBehaviour :
                   remounted(WithMode(The(handler), m), TheReq, The(local_rocket))
                       = remounted(The(handler), TheReq, The(local_rocket))
        /\ pc = "process_request" =>
               \A m \in BasePathBehaviour, out \in AppOutputs :
                   process_request(WithMode(The(handler), m), TheReq, out)
                       = process_request(The(handler), TheReq, out)

---------------------------------------------------------------------------
(* get_path_and_query on its own: every query of up to two keys, each with *)
(* up to MaxQueryValues values, some of which need percent-encoding.       *)

MaxQueryValues == 2

QueryKeys == {<<"k">>, <<"j", " ">>}

QueryValues == {<<"v">>, <<"w">>, <<"&", "=">>}

ValueLists == UNION {[1..n -> QueryValues] : n \in 1..MaxQueryValues}

\* the keys in the order the map iterates them, each with its values
QueryMaps ==
    {<<>>}
    \cup {<<<<k, vs>>>> : k \in QueryKeys, vs \in ValueLists}
    \cup {<<<<ks[1], vs1>>, <<ks[2], vs2>>>> :
            ks \in {kk \in QueryKeys \X QueryKeys : kk[1] # kk[2]},
            vs1 \in ValueLists, vs2 \in ValueLists}

QueryRequests ==
    {Request("GET", "ApiGateway", HostHeader(host), <<"/", "a">>, ParamA,
             <<"/", "a">>, q) :
        host \in {DefaultHost, CustomHost}, q \in QueryMaps}

InitQuery ==
    /\ pc = "query"
    /\ \E r \in QueryRequests : req = {r}
    /\ \E rocket \in Rockets : handler = {make_handler(new(rocket))}
    /\ builder = None
    /\ calls = <<>>
    /\ local_rocket = None
    /\ local_req = None
    /\ result = [tag |-> "None"]
    /\ invocations = 0
    /\ initialised_by = <<>>
    /\ constructions = 0

\* get_path_and_query applied to the request
path_and_query ==
    /\ pc = "query"
    /\ result' = [tag |-> "Uri", uri |-> get_path_and_query(The(handler), The(req))]
    /\ pc' = "queried"
    /\ UNCHANGED <<builder, calls, handler, local_rocket, req, local_req,
                   invocations, initialised_by, constructions>>

NextQuery == path_and_query

SpecQuery == InitQuery /\ [][NextQuery]_vars

\* the <<key, value>> pairs of a query: every value of every key, the values
\* of one key in their order
RECURSIVE PairsOf(_)
PairsOf(query) ==
    IF Len(query) = 0 THEN <<>>
    ELSE [i \in 1..Len(Head(query)[2]) |-> <<Head(query)[1], Head(query)[2][i]>>]
         \o PairsOf(Tail(query))

RECURSIVE Sum(_)
Sum(ns) == IF Len(ns) = 0 THEN 0 ELSE Head(ns) + Sum(Tail(ns))

\* the text after the path in the URI computed
QueryPart ==
    LET prefix == get_path_and_query(The(handler), [TheReq EXCEPT !.query = <<>>])
    IN  SubSeq(result.uri, Len(prefix) + 1, Len(result.uri))

\* C13: the query part of the dispatched URI holds exactly one key=value
\* pair for each value of each key, the values of one key in the order
\* supplied, '?' in front of the first pair and '&' in front of every later
\* one, key and value percent-encoded; with no query parameters nothing is
\* appended to the path.
C13_QueryPairs ==
    pc = "queried" =>
        LET pairs == PairsOf(TheReq.query)
            texts == [i \in 1..Len(pairs) |->
                        percent_encode(pairs[i][1]) \o <<"=">>
                            \o percent_encode(pairs[i][2])]
        IN  /\ starts_with(result.uri,
                   get_path_and_query(The(handler), [TheReq EXCEPT !.query = <<>>]))
            /\ Len(pairs) = Sum([i \in 1..Len(TheReq.query) |->
                                    Len(TheReq.query[i][2])])
            /\ IF Len(pairs) = 0 THEN QueryPart = <<>>
               ELSE /\ Head(QueryPart) = "?"
                    /\ Cardinality(Occurrences(QueryPart, <<"?">>)) = 1
                    /\ split(Tail(QueryPart), "&") = texts

\* two values of one key, one of them encoded, and a second key
C13_Witness ==
    /\ pc = "queried"
    /\ TheReq.query = <<<<<<"k">>, <<<<"v">>, <<"&", "=">>>>>>, <<<<"j", " ">>, <<<<"w">>>>>>>>
    /\ QueryPart = <<"?", "k", "=", "v", "&", "k", "=", "%", "2", "6", "%", "3", "D",
                     "&", "j", "%", "2", "0", "=", "w">>

---------------------------------------------------------------------------
(* The claims about the response *)

\* the LocalResponse that create_lambda_response is given when the
\* application answers out
LocalResponseFor(out) ==
    dispatch((The(handler)).client.rocket,
             create_rocket_request(The(handler), TheReq).val, out)

NotText == InvalidResponse("response body was not text")

ValidUtf8(bytes) == \A i \in 1..Len(bytes) : bytes[i] # "xFF"

\* the wire body that C14 gives for a response and the mode resolved for it
WireBodyAsStated(local_res, mode, res) ==
    IF local_res.body = None
    THEN /\ res # NotText
         /\ res.tag = "Ok" => res.val.body = [kind |-> "Empty", data |-> <<>>]
    ELSE LET b == The(local_res.body)
         IN  IF mode = "Text"
             THEN IF b.readable /\ ValidUtf8(b.bytes)
                  THEN /\ res # NotText
                       /\ res.tag = "Ok" =>
                              res.val.body = [kind |-> "Text", data |-> b.bytes]
                  ELSE res = NotText
             ELSE /\ res # NotText
                  /\ res.tag = "Ok" =>
                         res.val.body =
                             [kind |-> "Binary",
                              data |-> IF b.readable THEN b.bytes ELSE <<>>]

\* C14: the body of the response returned follows from (body present, mode):
\* no body gives Empty under either mode; a body under Text gives
\* Text(decoded) when it is valid UTF-8 and InvalidResponse otherwise; a body
\* under Binary gives Binary(bytes), empty when the bytes are unavailable,
\* and the invocation never fails on account of such a body.
C14_WireBody ==
    [][pc = "process_request" /\ pc' # "process_request"
       /\ create_rocket_request(The(handler), TheReq).tag = "Ok" =>
          \A out \in AppOutputs :
              result' = process_request(The(handler), TheReq, out)[1] =>
                  WireBodyAsStated(LocalResponseFor(out),
                                   response_type_for(The(handler), LocalResponseFor(out)),
                                   result')]_vars

\* a body that is not UTF-8 was answered with a content type resolved to
\* Text, and the invocation has returned InvalidResponse
C14_Witness ==
    /\ Returned /\ result = NotText
    /\ get_response_type([config |-> (The(handler)).config], <<"t", "/", "p">>) = "Text"
    /\ get_default_response_type([config |-> (The(handler)).config]) = "Binary"

---------------------------------------------------------------------------
(* The response type of a response on its own: a builder configured with   *)
(* content types in every letter case, made into a handler, and a response *)
(* with or without a Content-Type header.                                  *)

\* the headers of the LocalResponse: no Content-Type, or one of these
ResponseHeaders ==
    {<<>>}
    \cup {ContentTypeHeader(ct) :
            ct \in {<<>>, <<"a">>, <<"T", "/", "P">>, <<"t", "/", "p", ";", "c">>,
                    <<"T", "/", "p", ";", "c">>, <<";", "c">>, <<"a", ";", "t", "/", "p">>}}

\* handler.rs 93-101 applied to the headers of a response
resolve_response_type(headers) ==
    /\ pc = "idle"
    /\ result' = [tag |-> "ResponseType",
                  headers |-> headers,
                  response_type |->
                      response_type_for(The(handler), [headers |-> headers])]
    /\ pc' = "resolved_type"
    /\ UNCHANGED <<builder, calls, handler, local_rocket, req, local_req,
                   invocations, initialised_by, constructions>>

NextResponseType ==
    \/ \E rt \in ResponseType : default_response_type(rt)
    \/ \E ct \in BuilderContentTypes, rt \in ResponseType : response_type(ct, rt)
    \/ \E setting \in BasePathBehaviour : base_path_behaviour(setting)
    \/ into_handler
    \/ \E headers \in ResponseHeaders : resolve_response_type(headers)

SpecResponseType == Init /\ [][NextResponseType]_vars

\* what precedes the first ';' of a header value
FirstSegment(value) ==
    LET stops == {i \in 1..Len(value) : value[i] = ";"} \cup {Len(value) + 1}
        first == CHOOSE i \in stops : \A j \in stops : i <= j
    IN  SubSeq(value, 1, first - 1)

\* the Content-Type of the response resolved: the empty string when absent
ResolvedContentType ==
    IF result.headers = <<>> THEN <<>> ELSE result.headers[1][2]

\* C15: the response type used for a response is the override stored for
\* the lower-cased part of its Content-Type before the first ';' (the empty
\* string when the header is absent), or the default when there is no such
\* override; it is what the builder's get_response_type returns for that
\* first segment.
C15_ResponseTypeOfFirstSegment ==
    pc = "resolved_type" =>
        LET config == (The(handler)).config
            key == to_lowercase(FirstSegment(ResolvedContentType))
        IN  /\ result.response_type =
                   IF key \in DOMAIN config.response_types
                   THEN config.response_types[key]
                   ELSE config.default_response_type
            /\ result.response_type =
                   get_response_type([config |-> config],
                                     FirstSegment(ResolvedContentType))

\* the override set for "T/P" is used for a response of type "t/p;c", with
\* the default being the other type
C15_Witness ==
    /\ pc = "resolved_type"
    /\ (The(handler)).config.default_response_type = "Text"
    /\ (The(handler)).config.response_types = [k \in {<<"t", "/", "p">>} |-> "Binary"]
    /\ ResolvedContentType = <<"t", "/", "p", ";", "c">>
    /\ result.response_type = "Binary"

---------------------------------------------------------------------------
(* The claim about the route table *)

\* the routes again, each under the base path
CopiesUnder(base, routes) == [i \in 1..Len(routes) |-> base \o routes[i]]

\* C16 as stated, whole: the route table the first invocation leaves is the
\* original routes plus one copy of each under B when the setting is
\* RemountAndInclude and the first event resolves a non-empty base path B,
\* and exactly the original routes otherwise; no later step changes it,
\* whatever base path a later event resolves.
RouteTableAfterFirstInvocation ==
    /\ [][pc = "initialise" /\ ClientTag' = "Ready" =>
            LET originals == (The(local_rocket)).routes
            IN  Routes' = IF Mode = "RemountAndInclude" /\ NonEmptyResolvedBase
                          THEN originals \o CopiesUnder(ResolvedBase.val, originals)
                          ELSE originals]_vars
    /\ [][handler # None /\ ClientTag = "Ready" =>
            (The(handler')).client = (The(handler)).client]_vars

\* C16 as stated for RemountAndInclude: when the first event resolves a
\* non-empty base path B, the table the first invocation leaves is the
\* original routes plus one copy of each under B.
C16_RemountedUnderResolvedBase ==
    [][pc = "initialise" /\ ClientTag' = "Ready"
       /\ Mode = "RemountAndInclude" /\ NonEmptyResolvedBase =>
          LET originals == (The(local_rocket)).routes
          IN  Routes' = originals \o CopiesUnder(ResolvedBase.val, originals)]_vars

\* the table is never changed once the client is Ready
RouteTableFixedOnceReady ==
    [][handler # None /\ ClientTag = "Ready" =>
            (The(handler')).client = (The(handler)).client]_vars

---------------------------------------------------------------------------
(* The claim about dispatching *)

\* the request cannot be translated: its method is not one of the nine, or
\* one of its header values is not text
Untranslatable(r) ==
    \/ r.method \notin Methods
    \/ \E i \in 1..Len(r.headers) :
           \E k \in 1..Len(r.headers[i][2]) : r.headers[i][2][k] = "xFF"

\* C17: an invocation dispatches its request at most once (a request is
\* dispatched only by the process_request step of an invocation that has
\* not dispatched yet, and that step ends the invocation); it dispatches
\* nothing when the translation fails, which is when the method is
\* unsupported or a header value is not text, and then returns
\* InvalidRequest; and nothing is retried: a step of an invocation is only
\* ever followed by the next step or by the return, and only run starts
\* another invocation.
C17_AtMostOneDispatch ==
    /\ [](local_req # None => pc = "idle")
    /\ [](Returned =>
            IF Untranslatable(TheReq)
            THEN result.tag = "Err" /\ result.err = "InvalidRequest"
                 /\ local_req = None
            ELSE local_req # None
                 /\ ~(result.tag = "Err" /\ result.err = "InvalidRequest"))
    /\ [][local_req' # local_req =>
            \/ pc = "idle" /\ local_req' = None
            \/ pc = "process_request" /\ local_req = None /\ pc' = "idle"]_vars
    /\ [][pc = "process_request" => pc' \in {"idle", "panicking"}]_vars
    /\ [][pc' \in {"ensure_client_ready", "initialise", "process_request"} =>
            \/ pc = "idle" /\ pc' = "ensure_client_ready"
               /\ invocations' = invocations + 1
            \/ pc = "ensure_client_ready" /\ pc' \in {"initialise", "process_request"}
               /\ invocations' = invocations
            \/ pc = "initialise" /\ pc' = "process_request"
               /\ invocations' = invocations]_vars

\* the second invocation, a GET with a header value that is not text, was
\* refused with nothing dispatched
C17_Witness ==
    /\ Returned /\ invocations = 2 /\ TheReq.method = "GET"
    /\ result.tag = "Err" /\ result.err = "InvalidRequest"
    /\ local_req = None /\ ClientTag = "Ready"

---------------------------------------------------------------------------
(* The claim relating the three paths of request_ext.rs *)

\* C18: for every request, behind an ALB, on the default API-Gateway domain
\* or on a custom domain, for which base_path returns: full_path and
\* api_path return too, full_path is base_path followed by api_path, and
\* api_path is a suffix of the path of the incoming URI.
C18_FullPathIsBaseThenApi ==
    pc = "resolved" /\ result.base_path.tag = "Ok" =>
        /\ result.full_path.tag = "Ok"
        /\ result.api_path.tag = "Ok"
        /\ result.full_path.val = result.base_path.val \o result.api_path.val
        /\ ends_with(TheReq.path, result.api_path.val)

\* a proxy resource "/{p+}" on a custom domain with base-path mapping: the
\* path "/b/a" is the base path "/b" followed by the API path "/a"
C18_Witness ==
    /\ pc = "resolved" /\ OnCustomDomain(TheReq)
    /\ TheReq.resource_path = <<"/", "{", "p", "+", "}">>
    /\ TheReq.path_parameters = ParamA
    /\ result.base_path = Ok(<<"/", "b">>)
    /\ result.api_path = Ok(<<"/", "a">>)
    /\ result.full_path = Ok(<<"/", "b", "/", "a">>)

====
